---- MODULE Spec2Model ----
(***************************************************************************)
(* A model of github.com/cehbz/torrentname (parse.go, the phase-based      *)
(* scanner): Parse, its three boundary-scanning phases, the confidence     *)
(* scorer, the title/unparsed finishers, NormalizeTitle and MatchTitles.   *)
(* Names are TLA+ strings; offsets are Go's 0-based byte offsets.          *)
(***************************************************************************)
EXTENDS Integers, Sequences, FiniteSets, TLC

(***************************************************************************)
(* Strings: the Go string primitives the parser uses.                      *)
(***************************************************************************)
Char(s, i) == SubSeq(s, i, i)

\* Go's s[a:b]; callers check SliceOK first (an invalid slice panics).
Slice(s, a, b) == SubSeq(s, a + 1, b)

SliceOK(s, a, b) == 0 <= a /\ a <= b /\ b <= Len(s)

LowerLetters == "abcdefghijklmnopqrstuvwxyz"

UpperLetters == "ABCDEFGHIJKLMNOPQRSTUVWXYZ"

DigitChars == "0123456789"

CharsOf(s) == {Char(s, i) : i \in 1..Len(s)}

Lowers == CharsOf(LowerLetters)

Uppers == CharsOf(UpperLetters)

Digits == CharsOf(DigitChars)

Alnum == Lowers \cup Uppers \cup Digits

\* \w of the regexp package
WordChars == Alnum \cup {"_"}

\* \s of the regexp package
ReSpace == {" ", "\t", "\n", "\r", "\f"}

UpperMap == [c \in Lowers |-> Char(UpperLetters, CHOOSE i \in 1..26 : Char(LowerLetters, i) = c)]

LowerMap == [c \in Uppers |-> Char(LowerLetters, CHOOSE i \in 1..26 : Char(UpperLetters, i) = c)]

DigitMap == [c \in Digits |-> (CHOOSE i \in 1..10 : Char(DigitChars, i) = c) - 1]

UpperChar(c) == IF c \in Lowers THEN UpperMap[c] ELSE c

LowerChar(c) == IF c \in Uppers THEN LowerMap[c] ELSE c

MinOf(S) == CHOOSE x \in S : \A y \in S : x <= y

MaxOf(S) == CHOOSE x \in S : \A y \in S : x >= y

\* the concatenation of f[lo], ..., f[hi], a sequence of strings
RECURSIVE Concat(_, _, _)
Concat(f, lo, hi) ==
    IF lo > hi THEN ""
    ELSE IF lo = hi THEN f[lo]
    ELSE LET mid == (lo + hi) \div 2 IN Concat(f, lo, mid) \o Concat(f, mid + 1, hi)

ToUpper(s) == Concat([i \in 1..Len(s) |-> UpperChar(Char(s, i))], 1, Len(s))

ToLower(s) == Concat([i \in 1..Len(s) |-> LowerChar(Char(s, i))], 1, Len(s))

\* the 0-based offsets at which sub occurs in s
Occurrences(s, sub) == {i \in 0..(Len(s) - Len(sub)) : SubSeq(s, i + 1, i + Len(sub)) = sub}

\* strings.Index: 0-based offset of the first occurrence of sub, or -1
Index(s, sub) == IF Occurrences(s, sub) = {} THEN -1 ELSE MinOf(Occurrences(s, sub))

\* strings.LastIndex: 0-based offset of the last occurrence of sub, or -1
LastIndex(s, sub) == IF Occurrences(s, sub) = {} THEN -1 ELSE MaxOf(Occurrences(s, sub))

\* strings.ReplaceAll for a one-character old
ReplaceAll(s, old, new) ==
    Concat([i \in 1..Len(s) |-> IF Char(s, i) = old THEN new ELSE Char(s, i)], 1, Len(s))

\* strings.Replace(s, old, "", 1)
RemoveFirst(s, old) ==
    LET k == Index(s, old) IN
    IF k < 0 THEN s ELSE SubSeq(s, 1, k) \o SubSeq(s, k + Len(old) + 1, Len(s))

Reverse(seq) == [i \in 1..Len(seq) |-> seq[Len(seq) - i + 1]]

\* strings.Join(elems, " ")
Join(elems) ==
    Concat([i \in 1..Len(elems) |-> IF i = 1 THEN elems[i] ELSE " " \o elems[i]], 1, Len(elems))

\* strings.TrimRight(s, cutset)
TrimRight(s, cutset) ==
    LET keep == {i \in 1..Len(s) : Char(s, i) \notin cutset} IN
    IF keep = {} THEN "" ELSE SubSeq(s, 1, MaxOf(keep))

TrimLeft(s, cutset) ==
    LET keep == {i \in 1..Len(s) : Char(s, i) \notin cutset} IN
    IF keep = {} THEN "" ELSE SubSeq(s, MinOf(keep), Len(s))

\* unicode.IsSpace restricted to the ASCII range
GoSpace == {" ", "\t", "\n", "\r", "\f"}

TrimSpace(s) == TrimLeft(TrimRight(s, GoSpace), GoSpace)

\* strconv.Atoi on an unsigned decimal: <<value, ok>>; a syntax error gives <<0, FALSE>>
RECURSIVE DigitsVal(_, _, _)
DigitsVal(s, i, acc) ==
    IF i > Len(s) THEN acc
    ELSE DigitsVal(s, i + 1, acc * 10 + DigitMap[Char(s, i)])

Atoi(s) ==
    IF Len(s) > 0 /\ \A i \in 1..Len(s) : Char(s, i) \in Digits
    THEN <<DigitsVal(s, 1, 0), TRUE>>
    ELSE <<0, FALSE>>

\* strings.Title(strings.ToLower(s)): upper-case the first letter of every word
TitleCase(s) ==
    LET l == ToLower(s) IN
    Concat([i \in 1..Len(l) |-> IF i = 1 \/ Char(l, i - 1) \notin WordChars
                                THEN UpperChar(Char(l, i)) ELSE Char(l, i)], 1, Len(l))

(***************************************************************************)
(* Regular expressions: a pattern is a sequence of items; matching is      *)
(* leftmost-first with greedy repetition, as in Go's regexp package.       *)
(***************************************************************************)
Cls(cs) == [k |-> "set", cs |-> cs, neg |-> FALSE, ci |-> FALSE]

ClsI(cs) == [k |-> "set", cs |-> cs, neg |-> FALSE, ci |-> TRUE]

NotCls(cs) == [k |-> "set", cs |-> cs, neg |-> TRUE, ci |-> FALSE]

Rep(c, lo, hi) == [k |-> "rep", c |-> c, lo |-> lo, hi |-> hi]

Opt(c) == Rep(c, 0, 1)

Alt(alts) == [k |-> "alt", alts |-> alts]

\* (re)? for a sub-pattern: the sub-pattern is preferred to the empty match
OptSeq(re) == Alt(<<re, <<>>>>)

WB == [k |-> "wb"]

EOS == [k |-> "eos"]

D == Cls(Digits)

Lit(str) == [i \in 1..Len(str) |-> Cls({Char(str, i)})]

LitI(str) == [i \in 1..Len(str) |-> ClsI({UpperChar(Char(str, i))})]

AltI(strs) == Alt([i \in 1..Len(strs) |-> LitI(strs[i])])

ClsMatch(c, ch) ==
    LET in == IF c.ci THEN UpperChar(ch) \in c.cs ELSE ch \in c.cs IN
    IF c.neg THEN ~in ELSE in

IsWordAt(s, i) == i >= 1 /\ i <= Len(s) /\ Char(s, i) \in WordChars

\* the number of consecutive characters from position i that match class c, at most hi (hi < 0: no limit)
Run(c, s, i, hi) ==
    LET most == IF hi >= 0 /\ hi < Len(s) - i + 1 THEN hi ELSE Len(s) - i + 1 IN
    IF most <= 0 THEN 0
    ELSE MinOf({n \in 0..most : n = most \/ ~ClsMatch(c, Char(s, i + n))})

RECURSIVE SeqEnds(_, _, _, _), ItemEnds(_, _, _), FlatEnds(_, _, _, _, _), AltEnds(_, _, _, _)

\* the end positions of the matches of item it at position i of s, preferred first
ItemEnds(it, s, i) ==
    CASE it.k = "set" -> IF i <= Len(s) /\ ClsMatch(it, Char(s, i)) THEN <<i + 1>> ELSE <<>>
      [] it.k = "rep" -> LET n == Run(it.c, s, i, it.hi) IN
                         IF n < it.lo THEN <<>> ELSE [j \in 1..(n - it.lo + 1) |-> i + n - j + 1]
      [] it.k = "alt" -> AltEnds(it.alts, 1, s, i)
      [] it.k = "wb"  -> IF IsWordAt(s, i - 1) # IsWordAt(s, i) THEN <<i>> ELSE <<>>
      [] it.k = "eos" -> IF i = Len(s) + 1 THEN <<i>> ELSE <<>>

AltEnds(alts, a, s, i) ==
    IF a > Len(alts) THEN <<>>
    ELSE SeqEnds(alts[a], 1, s, i) \o AltEnds(alts, a + 1, s, i)

FlatEnds(es, n, re, j, s) ==
    IF n > Len(es) THEN <<>>
    ELSE SeqEnds(re, j, s, es[n]) \o FlatEnds(es, n + 1, re, j, s)

\* the end positions of the matches of re[j..] at position i of s, preferred first
SeqEnds(re, j, s, i) ==
    IF j > Len(re) THEN <<i>>
    ELSE FlatEnds(ItemEnds(re[j], s, i), 1, re, j + 1, s)

\* the end (1-based, exclusive) of the preferred match of re at position i, or 0
MatchAt(re, s, i) ==
    LET es == SeqEnds(re, 1, s, i) IN IF es = <<>> THEN 0 ELSE es[1]

\* FindAllStringIndex: the successive non-overlapping matches, as records of 0-based offsets
RECURSIVE FindAllFrom(_, _, _)
FindAllFrom(ends, s, from) ==
    LET starts == {i \in from..Len(s) : ends[i] > 0} IN
    IF starts = {} THEN <<>>
    ELSE LET i == MinOf(starts)
             e == ends[i]
         IN <<[start |-> i - 1, end |-> e - 1]>> \o FindAllFrom(ends, s, IF e > i THEN e ELSE i + 1)

FindAll(re, s) == FindAllFrom([i \in 1..Len(s) |-> MatchAt(re, s, i)], s, 1)

\* ReplaceAllString(s, repl) for a replacement without $ references
RECURSIVE ReplaceFrom(_, _, _, _, _)
ReplaceFrom(ms, n, s, from, repl) ==
    IF n > Len(ms) THEN SubSeq(s, from + 1, Len(s))
    ELSE SubSeq(s, from + 1, ms[n].start) \o repl \o ReplaceFrom(ms, n + 1, s, ms[n].end, repl)

ReplaceAllRe(re, s, repl) == ReplaceFrom(FindAll(re, s), 1, s, 0, repl)

(***************************************************************************)
(* The pattern catalog (parse.go, second var block).                       *)
(***************************************************************************)
yearPattern == <<WB, Alt(<<Lit("19") \o <<D, D>>, Lit("20") \o <<D, D>>>>), WB>>

seasonPattern == LitI("S") \o <<Rep(D, 1, 2)>>

seasonAltPattern == LitI("Season") \o <<Opt(Cls({"."} \cup ReSpace)), Rep(D, 1, 2)>>

episodePattern == LitI("S") \o <<Rep(D, 1, 2)>> \o LitI("E") \o <<Rep(D, 1, 3)>>

altEpisodePattern == <<Rep(D, 1, 2)>> \o LitI("x") \o <<Rep(D, 1, 3)>>

datePattern == <<D, D, D, D, Cls({".", "-"}), D, D, Cls({".", "-"}), D, D>>

resolutionPattern == <<AltI(<<"2160p", "4K", "1080p", "720p", "480p", "360p">>)>>

sourcePattern ==
    <<WB, AltI(<<"BLURAY", "BLU-RAY", "WEB-DL", "WEBDL", "WEBRIP", "WEB", "HDTV", "CAM", "TC",
                 "DVD", "BRRIP", "BDRIP">>), WB>>

codecPattern == <<WB, AltI(<<"H264", "X264", "AVC", "H265", "X265", "HEVC", "MPEG2", "MPEG4">>), WB>>

audioPattern == <<WB, AltI(<<"AAC", "AC3", "DTS", "FLAC", "TRUEHD", "MP3", "OGG", "WAV">>), WB>>

OptDotSpace == <<Opt(Cls({"."})), Opt(Cls(ReSpace))>>

editionPattern ==
    <<WB, Alt(<<LitI("Director") \o <<Opt(ClsI({"S"}))>> \o OptDotSpace \o LitI("Cut"),
                LitI("Extended") \o OptDotSpace \o LitI("Cut"),
                LitI("Extended"), LitI("Unrated"), LitI("Rated"), LitI("Theatrical"),
                LitI("Final") \o OptDotSpace \o LitI("Cut")>>), WB>>

completePattern == <<WB>> \o LitI("Complete") \o <<WB>>

properPattern == <<WB>> \o LitI("PROPER") \o <<WB>>

repackPattern == <<WB>> \o LitI("REPACK") \o <<WB>>

hardcodedPattern == <<WB, AltI(<<"HC", "HARDCODED">>), WB>>

languagePattern ==
    <<WB, AltI(<<"ENGLISH", "FRENCH", "SPANISH", "GERMAN", "ITALIAN", "DANISH", "DUTCH", "JAPANESE",
                 "CANTONESE", "MANDARIN", "RUSSIAN", "POLISH", "VIETNAMESE", "SWEDISH", "NORWEGIAN",
                 "FINNISH", "TURKISH", "PORTUGUESE", "KOREAN", "MULTI">>), WB>>

subsPattern == <<AltI(<<"SUBS", "SUBBED", "SUB">>)>>

containerPattern == Lit(".") \o <<AltI(<<"mkv", "mp4", "avi", "mov", "wmv", "flv", "webm">>), EOS>>

releaseGroupPattern ==
    Lit("-") \o <<Rep(Cls(Alnum), 1, -1),
                  OptSeq(Lit("[") \o <<Rep(NotCls({"]"}), 1, -1)>> \o Lit("]")), EOS>>

btnSeasonPack == LitI("S") \o <<Rep(D, 1, 2), Opt(Cls({"."} \cup ReSpace))>> \o LitI("Complete")

ptnYearRange == <<D, D, D, D>> \o Lit("-") \o <<D, D, D, D>>

monoStereoPattern == <<WB, AltI(<<"Mono", "Stereo">>), WB>>

channelPattern ==
    <<WB, AltI(<<"1.0", "2.0", "2.1", "3.0", "4.0", "5.1", "6.0", "6.1", "7.0", "7.1", "8.1", "9.1",
                 "10.2">>), WB>>

\* the anonymous audio-enhancement pattern of Phase 2 and of extractUnparsedContent
enhancementPattern ==
    <<WB, AltI(<<"ATMOS", "DTS-X", "DTS-HD", "DTS-HD MA", "DTS-ES", "DD+", "DD", "EAC3">>), WB>>

\* the nested subtitle-language pattern of the subtitle handler
subLanguagePattern ==
    <<AltI(<<"ENG", "FRE", "SPA", "GER", "ITA", "DAN", "DUT", "JAP", "CHI", "RUS", "POL", "VIE",
             "SWE", "NOR", "FIN", "TUR", "POR", "KOR">>), Opt(Cls({"."} \cup ReSpace))>> \o LitI("SUBS")

dateComponentPattern == <<WB, Rep(D, 1, 2), Cls({"."}), Rep(D, 1, 2), WB>>

leftoverEpisodePattern == <<WB, ClsI({"E"}), Rep(D, 1, 3), WB>>

bracketPattern == Lit("[") \o <<Rep(NotCls({"]"}), 1, -1)>> \o Lit("]")

trailingParenPattern == Lit("(") \o <<Rep(NotCls({")"}), 1, -1)>> \o Lit(")") \o <<EOS>>

spacesPattern == <<Rep(Cls(ReSpace), 1, -1)>>

\* time.Now().Year()
CurrentYear == 2026

MinYear == 1895

(***************************************************************************)
(* The output record and the field handlers.                               *)
(***************************************************************************)
NewInfo ==
    [Title |-> "", Year |-> 0, Date |-> "", Season |-> 0, Episode |-> 0, Resolution |-> "",
     Source |-> "", Codec |-> "", Audio |-> "", ReleaseGroup |-> "", Container |-> "",
     Language |-> "", Subtitles |-> <<>>, IsComplete |-> FALSE, IsProper |-> FALSE,
     IsRepack |-> FALSE, IsHardcoded |-> FALSE, Edition |-> "", Confidence |-> 1, Unparsed |-> ""]

\* a handler's outcome: acc is its boolean result, ok is FALSE when one of its slices is out of range
Accept(info) == [acc |-> TRUE, ok |-> TRUE, info |-> info]

Reject(info) == [acc |-> FALSE, ok |-> TRUE, info |-> info]

Panic(info) == [acc |-> FALSE, ok |-> FALSE, info |-> info]

\* the range check without its upper end
isReasonableYearOrLater(s) ==
    LET y == Atoi(s) IN y[2] /\ y[1] >= MinYear

isReasonableYear(s) ==
    LET y == Atoi(s) IN y[2] /\ y[1] >= MinYear /\ y[1] <= CurrentYear

resolutionHandler(match, info) ==
    IF info.Resolution = ""
    THEN LET r == ToLower(match) IN
         Accept([info EXCEPT !.Resolution = IF r = "4k" THEN "2160p" ELSE r])
    ELSE Reject(info)

NormalizeSource(source) ==
    LET u == ToUpper(source) IN
    CASE u \in {"BLURAY", "BLU-RAY"} -> "BluRay"
      [] u \in {"WEB-DL", "WEBDL"} -> "WEB-DL"
      [] u \in {"WEBRIP", "WEB"} -> "WEBRip"
      [] OTHER -> u

sourceHandler(match, info) ==
    IF info.Source = "" THEN Accept([info EXCEPT !.Source = NormalizeSource(match)])
    ELSE Reject(info)

NormalizeCodec(match) ==
    LET codec == ToUpper(match) IN
    CASE codec \in {"H264", "X264", "AVC"} -> "H264"
      [] codec \in {"H265", "X265", "HEVC"} -> "H265"
      [] OTHER -> codec

codecHandler(match, info) ==
    IF info.Codec = "" THEN Accept([info EXCEPT !.Codec = NormalizeCodec(match)])
    ELSE Reject(info)

\* group 1 of seasonPattern.FindStringSubmatch(match), or "" when there is no match
SeasonSubmatch(match) ==
    LET ms == FindAll(seasonPattern, match) IN
    IF ms = <<>> THEN "" ELSE Slice(match, ms[1].start + 1, ms[1].end)

episodeHandler(match, info) ==
    IF info.Episode = 0
    THEN LET from == LastIndex(match, "E") + 1
             sm   == SeasonSubmatch(match)
             withSeason == IF sm # "" THEN [info EXCEPT !.Season = Atoi(sm)[1]] ELSE info
         IN IF ~SliceOK(match, from, Len(match)) THEN Panic(info)
            ELSE Accept([withSeason EXCEPT !.Episode = Atoi(Slice(match, from, Len(match)))[1]])
    ELSE Reject(info)

\* strings.Split(match, "x") has two parts iff match holds exactly one "x"
altEpisodeHandler(match, info) ==
    LET k == Index(match, "x") IN
    IF info.Episode = 0 /\ k >= 0 /\ LastIndex(match, "x") = k
    THEN Accept([info EXCEPT !.Season = Atoi(Slice(match, 0, k))[1],
                             !.Episode = Atoi(Slice(match, k + 1, Len(match)))[1]])
    ELSE Reject(info)

seasonHandler(match, info) ==
    IF info.Season = 0
    THEN IF ~SliceOK(match, 1, Len(match)) THEN Panic(info)
         ELSE Accept([info EXCEPT !.Season = Atoi(Slice(match, 1, Len(match)))[1]])
    ELSE Reject(info)

seasonAltHandler(match, info) ==
    IF info.Season = 0
    THEN LET from == Index(match, "n") + 1 IN
         IF ~SliceOK(match, from, Len(match)) THEN Panic(info)
         ELSE Accept([info EXCEPT !.Season = Atoi(Slice(match, from, Len(match)))[1]])
    ELSE Reject(info)

dateHandler(match, info) ==
    IF info.Date = ""
    THEN IF ~SliceOK(match, 0, 4) THEN Panic(info)
         ELSE LET dated == [info EXCEPT !.Date = ReplaceAll(match, "-", ".")] IN
              Accept(IF isReasonableYear(Slice(match, 0, 4))
                     THEN [dated EXCEPT !.Year = Atoi(Slice(match, 0, 4))[1]] ELSE dated)
    ELSE Reject(info)

btnSeasonPackHandler(match, info) ==
    IF info.Season = 0 /\ ~info.IsComplete /\ FindAll(btnSeasonPack, match) # <<>>
    THEN LET m == FindAll(btnSeasonPack, match)[1]
             n == Run(D, match, m.start + 2, 2)
         IN Accept([info EXCEPT !.Season = Atoi(Slice(match, m.start + 1, m.start + 1 + n))[1],
                                !.IsComplete = TRUE])
    ELSE Reject(info)

\* a year taken even when the Year is already set
yearHandlerOverwrite(match, info) ==
    IF isReasonableYear(match)
    THEN Accept([info EXCEPT !.Year = Atoi(match)[1]])
    ELSE Reject(info)

yearHandler(match, info) ==
    IF info.Year = 0 /\ isReasonableYear(match)
    THEN Accept([info EXCEPT !.Year = Atoi(match)[1]])
    ELSE Reject(info)

editionHandler(match, info) ==
    IF info.Edition = "" THEN Accept([info EXCEPT !.Edition = TitleCase(ReplaceAll(match, ".", " "))])
    ELSE Reject(info)

completeHandler(match, info) ==
    IF ~info.IsComplete THEN Accept([info EXCEPT !.IsComplete = TRUE]) ELSE Reject(info)

properHandler(match, info) ==
    IF ~info.IsProper THEN Accept([info EXCEPT !.IsProper = TRUE]) ELSE Reject(info)

repackHandler(match, info) ==
    IF ~info.IsRepack THEN Accept([info EXCEPT !.IsRepack = TRUE]) ELSE Reject(info)

hardcodedHandler(match, info) ==
    IF ~info.IsHardcoded THEN Accept([info EXCEPT !.IsHardcoded = TRUE]) ELSE Reject(info)

languageHandler(match, info) ==
    IF info.Language = "" THEN Accept([info EXCEPT !.Language = TitleCase(match)])
    ELSE Reject(info)

\* the language codes the nested pattern finds in the matched text
SubLanguages(match) ==
    LET ms == FindAll(subLanguagePattern, match) IN
    [i \in 1..Len(ms) |-> Slice(match, ms[i].start, ms[i].start + 3)]

subsHandler(match, info) ==
    IF info.Subtitles = <<>>
    THEN LET langs == SubLanguages(match) IN
         Accept([info EXCEPT !.Subtitles = IF langs = <<>> THEN <<"Unknown">> ELSE langs])
    ELSE Reject(info)

QualityTags ==
    {"1080P", "720P", "480P", "2160P", "4K", "BLURAY", "WEBRIP", "HDTV", "WEB", "X264", "X265",
     "H264", "H265", "AAC", "AC3", "DTS", "FLAC", "PROPER", "REPACK"}

isQualityTag(s) == ToUpper(s) \in QualityTags

\* group 1 of releaseGroupPattern on the matched text: the alphanumeric run after the dash
releaseGroupHandler(match, info) ==
    IF info.ReleaseGroup = "" /\ FindAll(releaseGroupPattern, match) # <<>>
    THEN LET m == FindAll(releaseGroupPattern, match)[1]
             group == Slice(match, m.start + 1, m.start + 1 + Run(Cls(Alnum), match, m.start + 2, -1))
         IN IF ~isQualityTag(group) /\ Len(group) >= 2
            THEN Accept([info EXCEPT !.ReleaseGroup = group]) ELSE Reject(info)
    ELSE Reject(info)

audioHandler(match, info) == Accept(info)

(***************************************************************************)
(* Match collection and the exchange sort shared by the three phases.      *)
(***************************************************************************)
WithPattern(ms, p) == [i \in 1..Len(ms) |-> [start |-> ms[i].start, end |-> ms[i].end, pattern |-> p]]

RECURSIVE CollectFrom(_, _, _)
CollectFrom(patterns, p, name) ==
    IF p > Len(patterns) THEN <<>>
    ELSE WithPattern(FindAll(patterns[p], name), p) \o CollectFrom(patterns, p + 1, name)

CollectMatches(patterns, name) == CollectFrom(patterns, 1, name)

Swap(ms, i, j) == [ms EXCEPT ![i] = ms[j], ![j] = ms[i]]

\* the exchange also made on equal start offsets
RECURSIVE SortInnerOnTies(_, _, _)
SortInnerOnTies(ms, i, j) ==
    IF j > Len(ms) THEN ms
    ELSE SortInnerOnTies(IF ms[i].start <= ms[j].start THEN Swap(ms, i, j) ELSE ms, i, j + 1)

RECURSIVE SortInner(_, _, _)
SortInner(ms, i, j) ==
    IF j > Len(ms) THEN ms
    ELSE SortInner(IF ms[i].start < ms[j].start THEN Swap(ms, i, j) ELSE ms, i, j + 1)

RECURSIVE SortOuter(_, _)
SortOuter(ms, i) ==
    IF i > Len(ms) THEN ms ELSE SortOuter(SortInner(ms, i, i + 1), i + 1)

\* the in-place sort by start offset, descending
SortDescending(ms) == SortOuter(ms, 1)

DefinitePatterns ==
    <<resolutionPattern, sourcePattern, codecPattern, episodePattern, altEpisodePattern,
      seasonPattern, seasonAltPattern, datePattern, btnSeasonPack>>

DefiniteHandler(p, match, info) ==
    CASE p = 1 -> resolutionHandler(match, info)
      [] p = 2 -> sourceHandler(match, info)
      [] p = 3 -> codecHandler(match, info)
      [] p = 4 -> episodeHandler(match, info)
      [] p = 5 -> altEpisodeHandler(match, info)
      [] p = 6 -> seasonHandler(match, info)
      [] p = 7 -> seasonAltHandler(match, info)
      [] p = 8 -> dateHandler(match, info)
      [] p = 9 -> btnSeasonPackHandler(match, info)

ExtendingPatterns ==
    <<yearPattern, editionPattern, completePattern, properPattern, repackPattern, hardcodedPattern,
      languagePattern, subsPattern, releaseGroupPattern>>

ExtendingHandler(p, match, info) ==
    CASE p = 1 -> yearHandler(match, info)
      [] p = 2 -> editionHandler(match, info)
      [] p = 3 -> completeHandler(match, info)
      [] p = 4 -> properHandler(match, info)
      [] p = 5 -> repackHandler(match, info)
      [] p = 6 -> hardcodedHandler(match, info)
      [] p = 7 -> languageHandler(match, info)
      [] p = 8 -> subsHandler(match, info)
      [] p = 9 -> releaseGroupHandler(match, info)

PossiblePatterns ==
    ExtendingPatterns \o <<monoStereoPattern, channelPattern, audioPattern, enhancementPattern>>

IsAudioPattern(p) == p > Len(ExtendingPatterns)

PossibleHandler(p, match, info) ==
    IF IsAudioPattern(p) THEN audioHandler(match, info) ELSE ExtendingHandler(p, match, info)

Separators == {".", " ", "-", "_"}

\* every gap taken for separators
isOnlySeparatorsAlways(s) == TRUE

isOnlySeparators(s) == \A i \in 1..Len(s) : Char(s, i) \in Separators

\* adjacency without the separator check
isAdjacentExactly(start, end, metadataStartPos, name) ==
    end = metadataStartPos \/ start = metadataStartPos

isAdjacentToMetadataStart(start, end, metadataStartPos, name) ==
    IF end = metadataStartPos THEN TRUE
    ELSE IF start = metadataStartPos THEN TRUE
    ELSE IF end < metadataStartPos THEN isOnlySeparators(Slice(name, end, metadataStartPos))
    ELSE IF start > metadataStartPos THEN isOnlySeparators(Slice(name, metadataStartPos, start))
    ELSE FALSE

\* the slices isAdjacentToMetadataStart takes are within the name
AdjacentSlicesOK(start, end, metadataStartPos, name) ==
    /\ (end < metadataStartPos => SliceOK(name, end, metadataStartPos))
    /\ (end > metadataStartPos /\ start > metadataStartPos => SliceOK(name, metadataStartPos, start))

\* the match text taken one byte too far
MatchTextOffByOne(name, m) ==
    [ok |-> SliceOK(name, m.start, m.end + 1), text |-> Slice(name, m.start, m.end)]

\* name[match.start:match.end] of the phase loops
MatchText(name, m) == [ok |-> SliceOK(name, m.start, m.end), text |-> Slice(name, m.start, m.end)]

(***************************************************************************)
(* The finishers and the scorer.                                           *)
(***************************************************************************)
cleanString(s) ==
    LET s1 == ReplaceAll(ReplaceAll(s, ".", " "), "_", " ")
        s2 == ReplaceAllRe(bracketPattern, s1, "")
        s3 == ReplaceAllRe(trailingParenPattern, s2, "")
        s4 == ReplaceAllRe(spacesPattern, s3, " ")
    IN TrimSpace(s4)

TitleCutset == {".", " ", "-", "_"}

\* the title taken from the wrong side of the boundary
extractTitleFromSuffix(name, metadataStartPos) ==
    LET title == IF metadataStartPos >= 0 THEN Slice(name, metadataStartPos, Len(name)) ELSE name
    IN TrimSpace(cleanString(TrimRight(title, TitleCutset)))

extractTitleFromPosition(name, metadataStartPos) ==
    LET title == IF metadataStartPos >= 0 THEN Slice(name, 0, metadataStartPos) ELSE name
    IN TrimSpace(cleanString(TrimRight(title, TitleCutset)))

TitleSliceOK(name, metadataStartPos) == metadataStartPos >= 0 => SliceOK(name, 0, metadataStartPos)

UnparsedPatterns ==
    <<resolutionPattern, sourcePattern, codecPattern, audioPattern, languagePattern, completePattern,
      properPattern, repackPattern, hardcodedPattern, editionPattern, yearPattern,
      releaseGroupPattern, seasonPattern, seasonAltPattern, episodePattern, altEpisodePattern,
      monoStereoPattern, channelPattern, enhancementPattern, dateComponentPattern>>

\* the patterns applied one after the other (nothing is left to remove from an empty string)
RECURSIVE RemoveAllPatterns(_, _, _)
RemoveAllPatterns(patterns, p, s) ==
    IF Len(s) = 0 \/ p > Len(patterns) THEN s
    ELSE RemoveAllPatterns(patterns, p + 1, ReplaceAllRe(patterns[p], s, ""))

extractUnparsedContent(name, metadataStartPos) ==
    IF metadataStartPos >= Len(name) THEN ""
    ELSE LET afterMetadata == Slice(name, metadataStartPos, Len(name))
             r1 == RemoveAllPatterns(UnparsedPatterns, 1, afterMetadata)
             r2 == ReplaceAllRe(leftoverEpisodePattern, r1, "")
             r3 == ReplaceAll(ReplaceAll(r2, ".", " "), "-", " ")
             r4 == ReplaceAllRe(spacesPattern, r3, " ")
         IN TrimSpace(r4)

UnparsedSliceOK(name, metadataStartPos) ==
    metadataStartPos < Len(name) => SliceOK(name, metadataStartPos, Len(name))

YearSeasonWeight == 40

ResolutionWeight == 20

SourceWeight == 10

ReleaseGroupWeight == 10

MinorFieldWeight == 1

MaxConfidence == 100

Pts(b, w) == IF b THEN w ELSE 0

\* year and season scored separately
calculateConfidenceYearAndSeason(info) ==
    LET conf == Pts(info.Year # 0, YearSeasonWeight)
              + Pts(info.Season # 0, YearSeasonWeight)
              + Pts(info.Resolution # "", ResolutionWeight)
              + Pts(info.Source # "", SourceWeight)
              + Pts(info.ReleaseGroup # "", ReleaseGroupWeight)
              + Pts(info.Episode # 0, MinorFieldWeight)
              + Pts(info.Codec # "", MinorFieldWeight)
              + Pts(info.Audio # "", MinorFieldWeight)
              + Pts(info.Container # "", MinorFieldWeight)
              + Pts(info.Language # "", MinorFieldWeight)
              + Pts(info.Edition # "", MinorFieldWeight)
              + Pts(info.IsComplete, MinorFieldWeight)
              + Pts(info.IsProper, MinorFieldWeight)
              + Pts(info.IsRepack, MinorFieldWeight)
              + Pts(info.IsHardcoded, MinorFieldWeight)
    IN [info EXCEPT !.Confidence = IF conf > MaxConfidence THEN MaxConfidence ELSE conf]

calculateConfidence(info) ==
    LET conf == Pts(info.Year # 0 \/ info.Season # 0, YearSeasonWeight)
              + Pts(info.Resolution # "", ResolutionWeight)
              + Pts(info.Source # "", SourceWeight)
              + Pts(info.ReleaseGroup # "", ReleaseGroupWeight)
              + Pts(info.Episode # 0, MinorFieldWeight)
              + Pts(info.Codec # "", MinorFieldWeight)
              + Pts(info.Audio # "", MinorFieldWeight)
              + Pts(info.Container # "", MinorFieldWeight)
              + Pts(info.Language # "", MinorFieldWeight)
              + Pts(info.Edition # "", MinorFieldWeight)
              + Pts(info.IsComplete, MinorFieldWeight)
              + Pts(info.IsProper, MinorFieldWeight)
              + Pts(info.IsRepack, MinorFieldWeight)
              + Pts(info.IsHardcoded, MinorFieldWeight)
    IN [info EXCEPT !.Confidence = IF conf > MaxConfidence THEN MaxConfidence ELSE conf]

(***************************************************************************)
(* NormalizeTitle, MatchTitles and calculateSimilarity.                    *)
(***************************************************************************)
\* strings.Fields: the maximal runs of non-space characters, in order
RECURSIVE FieldsFrom(_, _)
FieldsFrom(s, from) ==
    LET starts == {i \in from..Len(s) : Char(s, i) \notin GoSpace} IN
    IF starts = {} THEN <<>>
    ELSE LET b == MinOf(starts)
             e == MinOf({j \in b..Len(s) : j = Len(s) \/ Char(s, j + 1) \in GoSpace})
         IN <<SubSeq(s, b, e)>> \o FieldsFrom(s, e + 1)

Fields(s) == FieldsFrom(s, 1)

commonWords == {"the", "a", "an", "and", "or", "of"}

nonAlnumSpacePattern == <<NotCls(Alnum \cup ReSpace)>>

\* the stopwords dropped before the words are lower-cased
NormalizeTitleFilterFirst(title) ==
    LET spaced   == ReplaceAllRe(nonAlnumSpacePattern, title, " ")
        filtered == SelectSeq(Fields(spaced), LAMBDA w : w \notin commonWords)
    IN ToLower(Join(filtered))

NormalizeTitle(title) ==
    LET spaced   == ReplaceAllRe(nonAlnumSpacePattern, title, " ")
        words    == Fields(ToLower(spaced))
        filtered == SelectSeq(words, LAMBDA w : w \notin commonWords)
    IN Join(filtered)

WordSet(s) == {Fields(s)[i] : i \in 1..Len(Fields(s))}

\* the Dice coefficient over word lists instead of word sets
calculateSimilarityOfLists(s1, s2) ==
    LET intersection == Cardinality(WordSet(s1) \cap WordSet(s2))
        total == Len(Fields(s1)) + Len(Fields(s2))
    IN IF total = 0 THEN <<0, 1>> ELSE <<2 * intersection, total>>

\* a similarity of 1 as soon as one of the titles has no word
calculateSimilarityEmptyIsOne(s1, s2) ==
    LET set1 == WordSet(s1)
        set2 == WordSet(s2)
        intersection == Cardinality(set1 \cap set2)
        total == Cardinality(set1) + Cardinality(set2)
    IN IF set1 = {} \/ set2 = {} THEN <<1, 1>> ELSE <<2 * intersection, total>>

\* the Dice coefficient as the fraction <<numerator, denominator>>
calculateSimilarity(s1, s2) ==
    LET set1 == WordSet(s1)
        set2 == WordSet(s2)
        intersection == Cardinality(set1 \cap set2)
        total == Cardinality(set1) + Cardinality(set2)
    IN IF total = 0 THEN <<0, 1>> ELSE <<2 * intersection, total>>

\* thresholds are given in tenths
ThresholdDen == 10

\* the comparison without the exact-match shortcut
MatchTitlesBySimilarity(title1, title2, threshold) ==
    LET similarity == calculateSimilarity(NormalizeTitle(title1), NormalizeTitle(title2))
    IN similarity[1] * ThresholdDen >= threshold * similarity[2]

MatchTitles(title1, title2, threshold) ==
    LET norm1 == NormalizeTitle(title1)
        norm2 == NormalizeTitle(title2)
        similarity == calculateSimilarity(norm1, norm2)
    IN IF norm1 = norm2 THEN TRUE
       ELSE similarity[1] * ThresholdDen >= threshold * similarity[2]

(***************************************************************************)
(* ParseWithHints: the adjustments made to the record Parse returns.       *)
(***************************************************************************)
\* the season-pack adjustment that keeps a season already found
btnHintKeepSeason(info, name) ==
    LET ms == FindAll(btnSeasonPack, name) IN
    IF ms = <<>> THEN info
    ELSE LET n == Run(D, name, ms[1].start + 2, 2)
             season == Atoi(Slice(name, ms[1].start + 1, ms[1].start + 1 + n))[1]
         IN [info EXCEPT !.Season = IF info.Season = 0 THEN season ELSE info.Season,
                         !.IsComplete = TRUE]

\* ParseWithHints, case "btn", "broadcasthenet": the leftmost season-pack phrase of the name
btnHint(info, name) ==
    LET ms == FindAll(btnSeasonPack, name) IN
    IF ms = <<>> THEN info
    ELSE LET n == Run(D, name, ms[1].start + 2, 2)
         IN [info EXCEPT !.Season = Atoi(Slice(name, ms[1].start + 1, ms[1].start + 1 + n))[1],
                         !.IsComplete = TRUE]

\* the year adjustment followed by a new score
ptpHintRescored(info, name) ==
    LET ms == FindAll(ptnYearRange, name) IN
    IF ms = <<>> THEN info
    ELSE calculateConfidence([info EXCEPT !.Year = Atoi(Slice(name, ms[1].start, ms[1].start + 4))[1]])

\* ParseWithHints, case "ptp", "passthepopcorn": the first year of the leftmost year range
ptpHint(info, name) ==
    LET ms == FindAll(ptnYearRange, name) IN
    IF ms = <<>> THEN info
    ELSE [info EXCEPT !.Year = Atoi(Slice(name, ms[1].start, ms[1].start + 4))[1]]

\* ParseWithHints, case "hdb", "hdbits"
hdbHint(info) ==
    IF info.Confidence * 11 < 100
    THEN [info EXCEPT !.Confidence = (info.Confidence * 11) \div 10]
    ELSE [info EXCEPT !.Confidence = 100]

\* the switch compared on the tracker as given
TrackerSwitchCaseSensitive(info, name, tracker) ==
    CASE tracker \in {"btn", "broadcasthenet"} -> btnHint(info, name)
      [] tracker \in {"ptp", "passthepopcorn"} -> ptpHint(info, name)
      [] tracker \in {"hdb", "hdbits"} -> hdbHint(info)
      [] OTHER -> info

\* ParseWithHints, the switch on strings.ToLower(tracker)
TrackerSwitch(info, name, tracker) ==
    LET t == ToLower(tracker) IN
    CASE t \in {"btn", "broadcasthenet"} -> btnHint(info, name)
      [] t \in {"ptp", "passthepopcorn"} -> ptpHint(info, name)
      [] t \in {"hdb", "hdbits"} -> hdbHint(info)
      [] OTHER -> info

(***************************************************************************)
(* Parse as a state machine: one call per behaviour, one step per          *)
(* statement block or loop iteration.                                      *)
(***************************************************************************)
VARIABLES
    ta,           \* the first title given to NormalizeTitle and MatchTitles
    tb,           \* the second title given to MatchTitles
    thr,          \* the threshold given to MatchTitles, in tenths
    tpc,          \* the position of the title calls
    norm1,        \* NormalizeTitle(ta)
    norm2,        \* NormalizeTitle(norm1)
    matched,      \* MatchTitles(ta, tb, thr)
    raw,          \* the name passed to Parse
    name,         \* the working string
    info,         \* the TorrentInfo under construction
    pc,           \* the position of the call
    pos,          \* metadataStartPos
    matches,      \* the sorted match list of the running phase
    mi,           \* the loop index into matches
    audioTokens,  \* the audio fragments gathered by Phase 2, in scan order
    stderr,       \* what println has written
    p1stop,       \* the record and boundary at the moment Phase 1 rejected a match
    tracker,      \* the tracker passed to ParseWithHints
    parsed,       \* the record Parse returned to ParseWithHints
    other,        \* the local state of a second call of Parse, while this one runs
    preempt       \* whether the running call may be interrupted between its steps

pvars == <<raw, name, info, pc, pos, matches, mi, audioTokens, stderr, p1stop>>

tvars == <<ta, tb, thr, tpc, norm1, norm2, matched>>

hvars == <<tracker, parsed>>

cvars == <<other, preempt>>

vars == <<pvars, tvars, hvars, cvars>>

NoStop == [hit |-> FALSE, info |-> NewInfo, pos |-> 0]

MatrixName == "The.Matrix.1999.1080p.BluRay.x264-SPARKS"

PilotName == "Breaking.Bad.S01E01.Pilot.1080p.BluRay.x264-ROVERS"

DuplicateName == "Some.Movie.2020.1080p.720p.BluRay.WEB.x264.H265-GROUP"

\* names of the README and of the tests, and names around them
ExampleNames ==
    {MatrixName, PilotName, DuplicateName,
     "Game.of.Thrones.S08.Complete.1080p.BluRay.x264-ROVERS[rartv]",
     "The.Lord.of.the.Rings.2001.EXTENDED.1080p.BluRay.x265-RARBG.mkv",
     "The.Daily.Show.2023.10.15.720p.WEB.x264-GROUP",
     "Movie.2019.1080p.BluRay.TrueHD.7.1.Atmos.x264-GRP",
     "Show.S01E02.PROPER.REPACK.HC.FRENCH.ENG.SUBS.720p.HDTV.Stereo.AAC.mp4",
     "Some Movie (2019) 1080p", "(b).1080p", "a (b).x264", "Show.Extended.Pilot.1080p",
     "The.Office.E01.Pilot.720p.HDTV.x264", "Breaking.Bad.S02.E05.720p.HDTV.x264",
     "Friends.E10.The.One.With.Monica.720p.HDTV",
     "Breaking.Bad.S01.Complete.720p.BluRay.x264-DEMAND",
     "The.Dark.Knight.2008.1080p.BluRay.DTS.x264-ESiR", "show.s4 complete.x264",
     "Trilogy.2001-2003.1080p.BluRay", "Show.1080p.BluRay.x264.AAC.PROPER.REPACK.mkv",
     "2023.10.15.Show.720p", "Show.2023.10.15.mkv", "Show.1999.MKV", "Show.mkv.1080p"}

\* the longest name built from tokens, in tokens
MaxTokens == 3

\* the longest name built from single characters, in characters
MaxChars == 3

TokenVocab == {"Show", "2010", "1080p", "S01E02", "S03", "1x02", "[a]", "-GRP"}

CharVocab == {".", "-", "_", "[", "]", "1"}

\* a token is joined to what precedes it by a dot, unless it brings its own dash
JoinToken(s, t) == IF s = "" THEN t ELSE IF Char(t, 1) = "-" THEN s \o t ELSE s \o "." \o t

RECURSIVE TokenNames(_)
TokenNames(n) ==
    IF n = 0 THEN {""}
    ELSE LET shorter == TokenNames(n - 1) IN
         shorter \cup {JoinToken(s, t) : s \in shorter, t \in TokenVocab}

RECURSIVE CharNames(_)
CharNames(n) ==
    IF n = 0 THEN {""}
    ELSE LET shorter == CharNames(n - 1) IN shorter \cup {s \o c : s \in shorter, c \in CharVocab}

EpisodeTitles == {"Breaking.Bad", "Show"}

EpisodeSeasons == {"01", "2", "10"}

EpisodeNumbers == {"01", "5", "123"}

EpisodeTexts == {"Pilot", "The.Fly"}

EpisodeTags == {"1080p.BluRay.x264-ROVERS", "720p", "HDTV.x265"}

EpisodeName(t, sn, en, f, g) == t \o ".S" \o sn \o "E" \o en \o "." \o f \o "." \o g

\* names whose only season/episode marker is one combined code, followed by free text and definite tags
EpisodeNames ==
    {EpisodeName(t, sn, en, f, g) :
        t \in EpisodeTitles, sn \in EpisodeSeasons, en \in EpisodeNumbers, f \in EpisodeTexts,
        g \in EpisodeTags}

PackPrefixes == {"Show", "Show.S01E02", "Show.Season.2"}

PackCodes == {"S03", "s10", "S7"}

PackSeparators == {".", " ", ""}

PackTails == {"", ".720p"}

\* names with a season-pack phrase
PackNames ==
    {p \o "." \o c \o sep \o "Complete" \o t :
        p \in PackPrefixes, c \in PackCodes, sep \in PackSeparators, t \in PackTails}

DateTexts ==
    {"2023.10.15", "2023-10-15", "2023.10-15", "1800.01.01", "2049-12-31", "1895.01.01",
     "1894-12-31", "2026.12.31", "2027.01.01"}

DateTails == {"", ".720p.WEB.x264-GROUP", ".2010.720p", ".2022.11.16.720p"}

\* names with a full date
DateNames == {"Show." \o d \o t : d \in DateTexts, t \in DateTails}

YearTexts == {"1800", "3000", "2049", "1894", "1895", "1999", "2026", "2027"}

YearTails == {"", ".1080p", ".1080p.BluRay.x264-GRP"}

\* names with a four-digit token after the title
YearNames == {"Show." \o y \o t : y \in YearTexts, t \in YearTails}

TitleWordTexts == {"Complete", "Proper", "Repack", "Unrated", "Theatrical", "Directors", "1999"}

\* names with a vocabulary word inside the title, and names with a year next to the boundary
TitleWordNames ==
    {"The." \o w \o ".Story.1080p" : w \in TitleWordTexts}
    \cup {"1984.1080p.BluRay.x264-SPARKS", "Show.1999 - 1080p", "Show.1999+1080p",
          "Show.Unrated.1999.1080p", "Show.1999.2001.1080p"}

\* names with possible-category tokens to the right of the first definite tag
Phase2Names ==
    {"Show.1080p.PROPER.2049", "Show.1080p.PROPER.1999", "Show.2019.1080p.PROPER.BluRay-x264",
     "Show.1080p.PROPER-a", "Show.1080p.PROPER.REPACK.PROPER"}

BothSidesTails == {"", ".BluRay.x264-GROUP", "-x264", ".HC.HC"}

\* names with a year, or an edition, on each side of the first definite tag
BothSidesNames ==
    {"Movie.1995.1080p.2010" \o t : t \in BothSidesTails}
    \cup {"Movie.Unrated.1080p.Extended" \o t : t \in BothSidesTails}
    \cup {"Blade.Runner.2049.2017.2160p.UHD.BluRay.x265-GROUP"}

SeasonWords == {"Season", "season", "SEASON"}

SeasonGaps == {"", ".", " "}

SeasonNumbers == {"2", "12"}

\* names with a worded season
SeasonWordNames == {"Show." \o w \o g \o n \o ".720p" : w \in SeasonWords, g \in SeasonGaps, n \in SeasonNumbers}

\* names with a subtitle indicator, with and without a language code before it
SubtitleNames == {"Show.720p.ENG.SUBS", "Show.720p.SUBS", "Show.FRE SUBS.720p", "Show.720p.engsubs"}

\* names with audio fragments on either side of the boundary
AudioNames ==
    {"Show.720p.AAC.PROPER.DTS.PROPER", "Show.720p.DTS-HD.5.1", "Show.AAC.720p.Stereo",
     "Show.720p.aac.2.0"}

EpisodeCodeCases == {"S01E05", "s01e05", "S01e05", "s01E05", "1x05", "1X05"}

QualityCases == {".1080p.BluRay.x264", ".1080P.bLuRaY.X264", ".1080P.BLURAY.x264"}

\* one name in several letter cases
CaseNames == {"Show." \o e \o q : e \in EpisodeCodeCases, q \in QualityCases}

\* names with a year range that Parse does not take as the year
RangeNames == {"Trilogy.2001-2003.Collection.1080p", "Trilogy.1800-1850.1080p", "Show.1080p.1080p.S02.Complete"}

\* names with a combined code and, to its right, a season code that leaves the season 0
TieNames == {"Show.S01E02.S00.720p", "Show.S01E02.Season.2.720p"}

Names ==
    ExampleNames \cup EpisodeNames \cup PackNames \cup DateNames \cup YearNames \cup TitleWordNames
    \cup Phase2Names \cup BothSidesNames \cup SeasonWordNames \cup SubtitleNames
    \cup AudioNames \cup CaseNames \cup RangeNames \cup TieNames
    \cup TokenNames(MaxTokens) \cup CharNames(MaxChars)

TitlesOff ==
    /\ ta = ""
    /\ tb = ""
    /\ thr = 0
    /\ tpc = "off"
    /\ norm1 = ""
    /\ norm2 = ""
    /\ matched = FALSE

HintsOff ==
    /\ tracker = ""
    /\ parsed = NewInfo

\* the local state of a call: the argument, the working string, the record, the boundary, the match list
Locals ==
    [raw |-> raw, name |-> name, info |-> info, pc |-> pc, pos |-> pos, matches |-> matches,
     mi |-> mi, audioTokens |-> audioTokens, p1stop |-> p1stop]

\* the local state of a call that has not taken a step
Fresh(n) ==
    [raw |-> n, name |-> n, info |-> NewInfo, pc |-> "container", pos |-> 0, matches |-> <<>>,
     mi |-> 1, audioTokens |-> <<>>, p1stop |-> NoStop]

\* no second call
NoCall == [Fresh("") EXCEPT !.pc = "done"]

SingleCall ==
    /\ other = NoCall
    /\ preempt = FALSE

Init ==
    /\ TitlesOff
    /\ HintsOff
    /\ SingleCall
    /\ raw \in Names
    /\ name = raw
    /\ info = NewInfo
    /\ pc = "container"
    /\ pos = 0
    /\ matches = <<>>
    /\ mi = 1
    /\ audioTokens = <<>>
    /\ stderr = <<>>
    /\ p1stop = NoStop

\* the container block without the truncation of the working string
ExtractContainerKeepName ==
    /\ pc = "container"
    /\ LET ms == FindAll(containerPattern, name) IN
       IF ms = <<>> THEN UNCHANGED info
       ELSE info' = [info EXCEPT !.Container = ToLower(Slice(name, ms[Len(ms)].start + 1, ms[Len(ms)].end))]
    /\ pc' = "date"
    /\ UNCHANGED <<raw, name, pos, matches, mi, audioTokens, stderr, p1stop, tvars, hvars, cvars>>

\* Parse, the container block
ExtractContainer ==
    /\ pc = "container"
    /\ LET ms == FindAll(containerPattern, name) IN
       IF ms = <<>> THEN /\ pc' = "date"
                         /\ UNCHANGED <<name, info>>
       ELSE LET last == ms[Len(ms)]
                cut  == LastIndex(name, Slice(name, last.start, last.end))
            IN IF ~SliceOK(name, 0, cut)
               THEN /\ pc' = "panic"
                    /\ UNCHANGED <<name, info>>
               ELSE /\ info' = [info EXCEPT !.Container = ToLower(Slice(name, last.start + 1, last.end))]
                    /\ name' = Slice(name, 0, cut)
                    /\ pc' = "date"
    /\ UNCHANGED <<raw, pos, matches, mi, audioTokens, stderr, p1stop, tvars, hvars, cvars>>

\* the date block without the removal of the date from the working string
ExtractDateKeepName ==
    /\ pc = "date"
    /\ LET ms == FindAll(datePattern, name) IN
       IF ms = <<>> THEN UNCHANGED info
       ELSE LET match == Slice(name, ms[1].start, ms[1].end)
                dated == [info EXCEPT !.Date = ReplaceAll(match, "-", ".")]
            IN info' = IF isReasonableYear(Slice(match, 0, 4))
                       THEN [dated EXCEPT !.Year = Atoi(Slice(match, 0, 4))[1]] ELSE dated
    /\ pc' = "p1scan"
    /\ UNCHANGED <<raw, name, pos, matches, mi, audioTokens, stderr, p1stop, tvars, hvars, cvars>>

\* Parse, the date block
ExtractDate ==
    /\ pc = "date"
    /\ LET ms == FindAll(datePattern, name) IN
       IF ms = <<>> THEN UNCHANGED <<name, info>>
       ELSE LET match == Slice(name, ms[1].start, ms[1].end)
                dated == [info EXCEPT !.Date = ReplaceAll(match, "-", ".")]
            IN /\ info' = IF isReasonableYear(Slice(match, 0, 4))
                          THEN [dated EXCEPT !.Year = Atoi(Slice(match, 0, 4))[1]] ELSE dated
               /\ name' = RemoveFirst(name, match)
    /\ pc' = "p1scan"
    /\ UNCHANGED <<raw, pos, matches, mi, audioTokens, stderr, p1stop, tvars, hvars, cvars>>

\* the next position of a phase loop after the iteration at index i
LoopNext(ms, i, loop, exit) == IF i + 1 > Len(ms) THEN exit ELSE loop

\* `continue` in place of `break`
ContinueLoop(ms, i, loop, exit) == [pc |-> IF i + 1 > Len(ms) THEN exit ELSE loop, mi |-> i + 1]

\* the `break` of a phase loop: the loop is left at index i
BreakLoop(ms, i, loop, exit) == [pc |-> exit, mi |-> i]

\* findMetadataBoundary up to the Phase-1 loop: the boundary starts at len(name)
Phase1Scan ==
    /\ pc = "p1scan"
    /\ pos' = Len(name)
    /\ matches' = SortDescending(CollectMatches(DefinitePatterns, name))
    /\ mi' = 1
    /\ pc' = IF matches' = <<>> THEN "p2scan" ELSE "p1"
    /\ UNCHANGED <<raw, name, info, audioTokens, stderr, p1stop, tvars, hvars, cvars>>

\* one iteration of the Phase-1 loop
Phase1Step ==
    /\ pc = "p1"
    /\ LET m == matches[mi]
           t == MatchText(name, m)
           r == DefiniteHandler(m.pattern, t.text, info)
       IN IF m.start >= pos
          THEN /\ pc' = LoopNext(matches, mi, "p1", "p2scan")
               /\ mi' = mi + 1
               /\ UNCHANGED <<info, pos, p1stop>>
          ELSE IF ~t.ok \/ ~r.ok
          THEN /\ pc' = "panic"
               /\ UNCHANGED <<info, pos, mi, p1stop>>
          ELSE IF r.acc
          THEN /\ info' = r.info
               /\ pos' = m.start
               /\ pc' = LoopNext(matches, mi, "p1", "p2scan")
               /\ mi' = mi + 1
               /\ UNCHANGED p1stop
          ELSE /\ pc' = BreakLoop(matches, mi, "p1", "p2scan").pc
               /\ mi' = BreakLoop(matches, mi, "p1", "p2scan").mi
               /\ p1stop' = [hit |-> TRUE, info |-> info, pos |-> pos]
               /\ UNCHANGED <<info, pos>>
    /\ UNCHANGED <<raw, name, matches, audioTokens, stderr, tvars, hvars, cvars>>

\* scanPossibleMetadataPhase1 up to its loop
Phase2Scan ==
    /\ pc = "p2scan"
    /\ stderr' = stderr \o
          <<<<"DEBUG: Step 2 start - metadata boundary at position:", pos, "in:", name>>,
            IF pos < Len(name) THEN <<"DEBUG: Text after boundary:", Slice(name, pos, Len(name))>>
            ELSE <<"DEBUG: No text after boundary">>>>
    /\ audioTokens' = <<>>
    /\ matches' = SortDescending(CollectMatches(PossiblePatterns, name))
    /\ mi' = 1
    /\ pc' = IF matches' = <<>> THEN "p2join" ELSE "p2"
    /\ UNCHANGED <<raw, name, info, pos, p1stop, tvars, hvars, cvars>>

\* an iteration of the Phase-2 loop that moves the boundary to the accepted match
Phase2StepMovingBoundary ==
    /\ pc = "p2"
    /\ LET m == matches[mi]
           t == MatchText(name, m)
           r == PossibleHandler(m.pattern, t.text, info)
       IN IF m.start < pos
          THEN /\ pc' = "p2join"
               /\ UNCHANGED <<info, mi, audioTokens, pos>>
          ELSE IF ~t.ok \/ ~r.ok
          THEN /\ pc' = "panic"
               /\ UNCHANGED <<info, mi, audioTokens, pos>>
          ELSE /\ audioTokens' = IF IsAudioPattern(m.pattern)
                                 THEN Append(audioTokens, ToUpper(t.text)) ELSE audioTokens
               /\ IF r.acc
                  THEN /\ info' = r.info
                       /\ pos' = m.start
                       /\ pc' = LoopNext(matches, mi, "p2", "p2join")
                       /\ mi' = mi + 1
                  ELSE /\ pc' = BreakLoop(matches, mi, "p2", "p2join").pc
                       /\ mi' = BreakLoop(matches, mi, "p2", "p2join").mi
                       /\ UNCHANGED <<info, pos>>
    /\ UNCHANGED <<raw, name, matches, stderr, p1stop, tvars, hvars, cvars>>

\* one iteration of the Phase-2 loop
Phase2Step ==
    /\ pc = "p2"
    /\ LET m == matches[mi]
           t == MatchText(name, m)
           r == PossibleHandler(m.pattern, t.text, info)
       IN IF m.start < pos
          THEN /\ pc' = "p2join"
               /\ UNCHANGED <<info, mi, audioTokens>>
          ELSE IF ~t.ok \/ ~r.ok
          THEN /\ pc' = "panic"
               /\ UNCHANGED <<info, mi, audioTokens>>
          ELSE /\ audioTokens' = IF IsAudioPattern(m.pattern)
                                 THEN Append(audioTokens, ToUpper(t.text)) ELSE audioTokens
               /\ IF r.acc
                  THEN /\ info' = r.info
                       /\ pc' = LoopNext(matches, mi, "p2", "p2join")
                       /\ mi' = mi + 1
                  ELSE /\ pc' = BreakLoop(matches, mi, "p2", "p2join").pc
                       /\ mi' = BreakLoop(matches, mi, "p2", "p2join").mi
                       /\ UNCHANGED info
    /\ UNCHANGED <<raw, name, pos, matches, stderr, p1stop, tvars, hvars, cvars>>

\* the audio fragments joined in the order the scan met them
Phase2JoinAsCollected ==
    /\ pc = "p2join"
    /\ info' = IF Len(audioTokens) > 0 THEN [info EXCEPT !.Audio = Join(audioTokens)] ELSE info
    /\ pc' = "p3scan"
    /\ UNCHANGED <<raw, name, pos, matches, mi, audioTokens, stderr, p1stop, tvars, hvars, cvars>>

\* scanPossibleMetadataPhase1 after its loop: reverse and join the audio fragments
Phase2Join ==
    /\ pc = "p2join"
    /\ info' = IF Len(audioTokens) > 0 THEN [info EXCEPT !.Audio = Join(Reverse(audioTokens))] ELSE info
    /\ pc' = "p3scan"
    /\ UNCHANGED <<raw, name, pos, matches, mi, audioTokens, stderr, p1stop, tvars, hvars, cvars>>

\* scanPossibleMetadataPhase2 up to its loop
Phase3Scan ==
    /\ pc = "p3scan"
    /\ matches' = SortDescending(CollectMatches(ExtendingPatterns, name))
    /\ mi' = 1
    /\ pc' = IF matches' = <<>> THEN "finish" ELSE "p3"
    /\ UNCHANGED <<raw, name, info, pos, audioTokens, stderr, p1stop, tvars, hvars, cvars>>

\* one iteration of the Phase-3 loop
Phase3Step ==
    /\ pc = "p3"
    /\ LET m == matches[mi]
           t == MatchText(name, m)
           r == ExtendingHandler(m.pattern, t.text, info)
       IN IF m.start >= pos
          THEN /\ pc' = LoopNext(matches, mi, "p3", "finish")
               /\ mi' = mi + 1
               /\ UNCHANGED <<info, pos>>
          ELSE IF m.start = 0
          THEN /\ pc' = "finish"
               /\ UNCHANGED <<info, pos, mi>>
          ELSE IF ~AdjacentSlicesOK(m.start, m.end, pos, name)
          THEN /\ pc' = "panic"
               /\ UNCHANGED <<info, pos, mi>>
          ELSE IF ~isAdjacentToMetadataStart(m.start, m.end, pos, name)
          THEN /\ pc' = "finish"
               /\ UNCHANGED <<info, pos, mi>>
          ELSE IF ~t.ok \/ ~r.ok
          THEN /\ pc' = "panic"
               /\ UNCHANGED <<info, pos, mi>>
          ELSE IF r.acc
          THEN /\ info' = r.info
               /\ pos' = m.start
               /\ pc' = LoopNext(matches, mi, "p3", "finish")
               /\ mi' = mi + 1
          ELSE /\ pc' = BreakLoop(matches, mi, "p3", "finish").pc
               /\ mi' = BreakLoop(matches, mi, "p3", "finish").mi
               /\ UNCHANGED <<info, pos>>
    /\ UNCHANGED <<raw, name, matches, audioTokens, stderr, p1stop, tvars, hvars, cvars>>

\* Parse after findMetadataBoundary: title, unparsed residue, confidence
Finish ==
    /\ pc = "finish"
    /\ IF ~TitleSliceOK(name, pos) \/ ~UnparsedSliceOK(name, pos)
       THEN /\ pc' = "panic"
            /\ UNCHANGED info
       ELSE /\ info' = calculateConfidence([info EXCEPT !.Title = extractTitleFromPosition(name, pos),
                                                        !.Unparsed = extractUnparsedContent(name, pos)])
            /\ pc' = "done"
    /\ UNCHANGED <<raw, name, pos, matches, mi, audioTokens, stderr, p1stop, tvars, hvars, cvars>>

Trackers ==
    {"", "xyz", "btn", "BTN", "Btn", "BroadcasTheNet", "ptp", "PTP", "PassThePopcorn", "hdb", "HDB", "HDBits"}

\* ParseWithHints after its call of Parse: the switch on the tracker
ParseWithHints ==
    /\ pc = "done"
    /\ \E t \in Trackers :
          /\ tracker' = t
          /\ info' = TrackerSwitch(info, raw, t)
    /\ parsed' = info
    /\ pc' = "hinted"
    /\ UNCHANGED <<raw, name, pos, matches, mi, audioTokens, stderr, p1stop, tvars, cvars>>

ParseNext ==
    \/ ExtractContainer
    \/ ExtractDate
    \/ Phase1Scan
    \/ Phase1Step
    \/ Phase2Scan
    \/ Phase2Step
    \/ Phase2Join
    \/ Phase3Scan
    \/ Phase3Step
    \/ Finish

Next ==
    \/ ParseNext
    \/ ParseWithHints

\* the scheduler passes from the running call to the other one, leaving the record where it is:
\* the two calls write one record
SwitchSharingRecord ==
    /\ other.pc # "done"
    /\ preempt \/ pc = "done"
    /\ raw' = other.raw
    /\ name' = other.name
    /\ pc' = other.pc
    /\ pos' = other.pos
    /\ matches' = other.matches
    /\ mi' = other.mi
    /\ audioTokens' = other.audioTokens
    /\ p1stop' = other.p1stop
    /\ other' = Locals
    /\ UNCHANGED <<info, stderr, preempt, tvars, hvars>>

\* the scheduler passes from the running call to the other one: each call keeps its own
\* argument, working string, record, boundary and match list; the output stream is the process's
Switch ==
    /\ other.pc # "done"
    /\ preempt \/ pc = "done"
    /\ raw' = other.raw
    /\ name' = other.name
    /\ info' = other.info
    /\ pc' = other.pc
    /\ pos' = other.pos
    /\ matches' = other.matches
    /\ mi' = other.mi
    /\ audioTokens' = other.audioTokens
    /\ p1stop' = other.p1stop
    /\ other' = Locals
    /\ UNCHANGED <<stderr, preempt, tvars, hvars>>

Spec == Init /\ [][Next]_vars

(***************************************************************************)
(* Two calls of Parse in one process: one after the other, or interleaved  *)
(* step by step.                                                           *)
(***************************************************************************)
ContainerExtensions == {"mkv", "mp4", "avi", "mov", "wmv", "flv", "webm"}

\* names without a container extension, each parsed with ".mkv" appended and without
BareNames ==
    TokenNames(MaxTokens - 1) \cup CharNames(MaxChars)
    \cup {"Show.mkv.1080p", "Show.2023.10.15", "Showmkv", "Show.", "Show.txt", "Show.mkv-GRP"}

\* names parsed with each of the extensions appended and without
ExtensionNames == {MatrixName, "Show.S01E02.PROPER.720p.HDTV.AAC", "Show"}

\* names parsed by two interleaved calls
ConcurrentNames ==
    {MatrixName, "Show.1999.MKV", "The.Daily.Show.2023.10.15.720p.WEB.x264-GROUP", "1x02.S03"}

\* the arguments of the two calls, and whether the calls are interleaved
PairInputs ==
    {<<n \o ".mkv", n, FALSE>> : n \in BareNames}
    \cup {<<n \o "." \o e, n, FALSE>> : n \in ExtensionNames, e \in ContainerExtensions}
    \cup {<<a, b, TRUE>> : a \in ConcurrentNames, b \in ConcurrentNames}

InitPairs ==
    /\ TitlesOff
    /\ HintsOff
    /\ \E p \in PairInputs :
          /\ raw = p[1]
          /\ name = p[1]
          /\ other = Fresh(p[2])
          /\ preempt = p[3]
    /\ info = NewInfo
    /\ pc = "container"
    /\ pos = 0
    /\ matches = <<>>
    /\ mi = 1
    /\ audioTokens = <<>>
    /\ stderr = <<>>
    /\ p1stop = NoStop

NextPairs ==
    \/ ParseNext
    \/ Switch

SpecPairs == InitPairs /\ [][NextPairs]_vars

(***************************************************************************)
(* The title utilities, applied to bounded titles and thresholds.          *)
(***************************************************************************)
\* the longest title, in words
MaxWords == 2

TitleWords == {"The", "Matrix", "Reloaded", "MATRIX:"}

RECURSIVE WordTitles(_)
WordTitles(n) ==
    IF n = 0 THEN {""}
    ELSE LET shorter == WordTitles(n - 1) IN
         shorter \cup {IF s = "" THEN w ELSE s \o " " \o w : s \in shorter, w \in TitleWords}

Titles == WordTitles(MaxWords)

\* 0, 0.3, 0.8, 1.0 and 1.5
Thresholds == {0, 3, 8, 10, 15}

ParseOff ==
    /\ raw = ""
    /\ name = ""
    /\ info = NewInfo
    /\ pc = "off"
    /\ pos = 0
    /\ matches = <<>>
    /\ mi = 1
    /\ audioTokens = <<>>
    /\ stderr = <<>>
    /\ p1stop = NoStop

InitTitles ==
    /\ ParseOff
    /\ HintsOff
    /\ SingleCall
    /\ ta \in Titles
    /\ tb \in Titles
    /\ thr \in Thresholds
    /\ tpc = "start"
    /\ norm1 = ""
    /\ norm2 = ""
    /\ matched = FALSE

Normalize ==
    /\ tpc = "start"
    /\ norm1' = NormalizeTitle(ta)
    /\ tpc' = "normalized"
    /\ UNCHANGED <<pvars, hvars, cvars, ta, tb, thr, norm2, matched>>

NormalizeAgain ==
    /\ tpc = "normalized"
    /\ norm2' = NormalizeTitle(norm1)
    /\ tpc' = "renormalized"
    /\ UNCHANGED <<pvars, hvars, cvars, ta, tb, thr, norm1, matched>>

Match ==
    /\ tpc = "renormalized"
    /\ matched' = MatchTitles(ta, tb, thr)
    /\ tpc' = "matched"
    /\ UNCHANGED <<pvars, hvars, cvars, ta, tb, thr, norm1, norm2>>

NextTitles ==
    \/ Normalize
    \/ NormalizeAgain
    \/ Match

SpecTitles == InitTitles /\ [][NextTitles]_vars

(***************************************************************************)
(* Properties.                                                             *)
(***************************************************************************)
Returned == pc = "done"

HasOnly(s, cs) == \A i \in 1..Len(s) : Char(s, i) \in cs

\* the order of the positions of a call
PcRank ==
    [container |-> 1, date |-> 2, p1scan |-> 3, p1 |-> 4, p2scan |-> 5, p2 |-> 6, p2join |-> 7,
     p3scan |-> 8, p3 |-> 9, finish |-> 10, done |-> 11, hinted |-> 12, panic |-> 0]

InLoop(p) == p \in {"p1", "p2", "p3"}

\* C1: for every input, the empty string and names of separators, brackets or digits included,
\* every step of Parse moves the call forward (to a later position, or to a later match of the
\* running loop, whose index stays within the match list) and none raises: no slice, index or
\* conversion fails, so the call reaches its return.
C1_ParseReturns ==
    [][/\ pc' # "panic"
       /\ InLoop(pc) => mi \in 1..Len(matches)
       /\ \/ PcRank[pc'] > PcRank[pc]
          \/ pc' = pc /\ InLoop(pc) /\ mi' > mi /\ mi' <= Len(matches)]_vars

C1_Witness == Returned /\ raw # "" /\ HasOnly(raw, {".", "-", "_", "[", "]", "1"}) /\ info.Title = ""

\* the score of the documented weight table
TableScore(r) ==
    (IF r.Year # 0 \/ r.Season # 0 THEN 40 ELSE 0) + (IF r.Resolution # "" THEN 20 ELSE 0)
    + (IF r.Source # "" THEN 10 ELSE 0) + (IF r.ReleaseGroup # "" THEN 10 ELSE 0)
    + Cardinality({f \in {"Codec", "Audio", "Container", "Language", "Edition"} : r[f] # ""})
    + Cardinality({f \in {"IsComplete", "IsProper", "IsRepack", "IsHardcoded"} : r[f]})
    + (IF r.Episode # 0 THEN 1 ELSE 0)

ScoredFields ==
    {"Year", "Season", "Resolution", "Source", "ReleaseGroup", "Episode", "Codec", "Audio",
     "Container", "Language", "Edition", "IsComplete", "IsProper", "IsRepack", "IsHardcoded"}

\* record r with field f as Parse starts it
Cleared(r, f) == [r EXCEPT ![f] = NewInfo[f]]

TitlePrefix == Slice(name, 0, pos)

HasNonSeparator(s) == \E i \in 1..Len(s) : Char(s, i) \notin Separators

\* C3 as stated: a non-separator character left of the final boundary gives a non-empty Title.
C3_NonSeparatorGivesTitle == Returned /\ HasNonSeparator(TitlePrefix) => info.Title # ""

NoOpening(s) == \A i \in 1..Len(s) : Char(s, i) \notin {"[", "("}

HasTitleCharacter(s) == \E i \in 1..Len(s) : Char(s, i) \notin (Separators \cup GoSpace)

\* C3 (amended): if the text left of the final boundary holds no '[' and no '(' and has a
\* character that is neither a separator nor white space, the Title is non-empty.
C3_PlainPrefixGivesTitle ==
    Returned /\ HasTitleCharacter(TitlePrefix) /\ NoOpening(TitlePrefix) => info.Title # ""

C3_Witness ==
    /\ Returned
    /\ pos < Len(name)
    /\ HasTitleCharacter(TitlePrefix)
    /\ NoOpening(TitlePrefix)
    /\ info.Title = "Show"

OptionalFields ==
    {"Year", "Date", "Season", "Episode", "Resolution", "Source", "Codec", "ReleaseGroup",
     "Language", "Edition", "IsComplete", "IsProper", "IsRepack", "IsHardcoded"}

\* C4: a field that holds a value set by a match is not changed by any later step of the parse.
C4_FieldsAssignedOnce ==
    [][\A f \in OptionalFields : info[f] # NewInfo[f] => info'[f] = info[f]]_vars

C7_Phase1StopsAtDuplicate ==
    /\ pc = "p1" => \A i, j \in 1..Len(matches) : i < j => matches[i].start >= matches[j].start
    /\ p1stop.hit => pc # "p1"
    /\ p1stop.hit /\ pc = "p2scan" =>
          /\ info = p1stop.info
          /\ pos = p1stop.pos
          /\ matches[mi].start < pos
    /\ Returned /\ raw = DuplicateName =>
          /\ info.Title = "Some Movie 2020 1080p 720p BluRay WEB x264"
          /\ info.Codec = "H265"
          /\ info.ReleaseGroup = "GROUP"
          /\ info.Resolution = ""
          /\ info.Source = ""
          /\ info.Year = 0

C7_Witness == Returned /\ raw = DuplicateName /\ p1stop.hit /\ p1stop.info.Codec = "H265"

IsNormalized(s) ==
    /\ HasOnly(s, Lowers \cup Digits \cup {" "})
    /\ s = Join(Fields(s))
    /\ WordSet(s) \cap commonWords = {}

\* C8: NormalizeTitle is idempotent; its output has only lower-case letters, digits and single
\* spaces, and no stopword.
C8_NormalizeIdempotent ==
    /\ tpc \in {"normalized", "renormalized", "matched"} => IsNormalized(norm1)
    /\ tpc \in {"renormalized", "matched"} => norm2 = norm1

C8_Witness == tpc = "renormalized" /\ ta = "The MATRIX:" /\ norm1 = "matrix" /\ norm2 = "matrix"

\* C9: MatchTitles(a, a, t) is true for every title a and threshold t <= 1.0, also when a
\* normalizes to the empty string.
C9_MatchReflexive == tpc = "matched" /\ ta = tb /\ thr <= ThresholdDen => matched

C9_Witness == tpc = "matched" /\ ta = tb /\ ta = "The" /\ norm1 = "" /\ thr = 10 /\ matched

SetDice(a, b, t) ==
    LET A == WordSet(NormalizeTitle(a))
        B == WordSet(NormalizeTitle(b))
    IN 2 * Cardinality(A \cap B) * ThresholdDen >= t * (Cardinality(A) + Cardinality(B))

Doubled(s) == IF s = "" THEN s ELSE s \o " " \o s

Reordered(s) == Join(Reverse(Fields(s)))

Differ(a, b) == NormalizeTitle(a) # NormalizeTitle(b)

BothEmpty(a, b) == NormalizeTitle(a) = "" /\ NormalizeTitle(b) = ""

OneEmpty(a, b) == (NormalizeTitle(a) = "") # (NormalizeTitle(b) = "")

\* C11 as stated: two titles that normalize to the empty string match at every threshold, and an
\* empty normalized title never matches a non-empty one, whatever the threshold.
C11_EmptyNeverMatches ==
    tpc = "matched" =>
        /\ BothEmpty(ta, tb) => matched
        /\ OneEmpty(ta, tb) => ~matched

\* C11 (amended): two titles that normalize to the empty string match at every threshold; an empty
\* normalized title does not match a non-empty one at any threshold above 0, and matches it at
\* threshold 0, where the similarity 0 reaches the threshold.
C11_EmptyMatchesOnlyAtZero ==
    tpc = "matched" =>
        /\ BothEmpty(ta, tb) => matched
        /\ OneEmpty(ta, tb) => (matched <=> thr <= 0)

C11_Witness == tpc = "matched" /\ ta = "The" /\ tb = "Matrix" /\ thr = 3 /\ OneEmpty(ta, tb) /\ ~matched

Hinted == pc = "hinted"

KnownAliases == {"btn", "broadcasthenet", "ptp", "passthepopcorn", "hdb", "hdbits"}

\* C12: a tracker that is none of the known aliases, compared without regard to letter case,
\* leaves the record of Parse as it is; for a known alias the result is the same for every
\* spelling of the tracker that differs only in letter case.
C12_TrackerAliases ==
    Hinted =>
        /\ ToLower(tracker) \notin KnownAliases => info = parsed
        /\ \A t \in Trackers : ToLower(t) = ToLower(tracker) => TrackerSwitch(parsed, raw, t) = info

C12_Witness == Hinted /\ tracker = "BroadcasTheNet" /\ info # parsed /\ info.IsComplete

\* C13: for hdb/hdbits the confidence c of Parse becomes min(100, (c*11) div 10), which is
\* never lower than c.
C13_BoostByTenth ==
    Hinted /\ ToLower(tracker) \in {"hdb", "hdbits"} =>
        /\ info.Confidence = (IF (parsed.Confidence * 11) \div 10 > 100 THEN 100
                              ELSE (parsed.Confidence * 11) \div 10)
        /\ info.Confidence >= parsed.Confidence
        /\ info = [parsed EXCEPT !.Confidence = info.Confidence]

\* a season-pack phrase at 0-based offset i of s: S, n digits, k separators, Complete
PackPhraseAt(s, i, n, k) ==
    /\ i + 1 + n + k + 8 <= Len(s)
    /\ ToUpper(Slice(s, i, i + 1)) = "S"
    /\ Atoi(Slice(s, i + 1, i + 1 + n))[2]
    /\ k = 1 => Slice(s, i + 1 + n, i + 2 + n) \in {"."} \cup GoSpace
    /\ ToLower(Slice(s, i + 1 + n + k, i + 1 + n + k + 8)) = "complete"

\* the offsets and numbers of the season-pack phrases of s
PackPhrases(s) ==
    {<<i, Atoi(Slice(s, i + 1, i + 1 + n))[1]>> :
        <<i, n, k>> \in {w \in (0..Len(s)) \X (1..2) \X (0..1) : PackPhraseAt(s, w[1], w[2], w[3])}}

\* C14: for btn/broadcasthenet, a raw name with a season-pack phrase gives IsComplete = true and
\* the season of the (leftmost) phrase, whatever Parse had found, and nothing else changes;
\* without such a phrase the result is the record of Parse.
C14_SeasonPackForced ==
    Hinted /\ ToLower(tracker) \in {"btn", "broadcasthenet"} =>
        IF PackPhrases(raw) = {} THEN info = parsed
        ELSE /\ info.IsComplete
             /\ \E ph \in PackPhrases(raw) :
                   /\ \A q \in PackPhrases(raw) : ph[1] <= q[1]
                   /\ info.Season = ph[2]
             /\ info = [parsed EXCEPT !.IsComplete = TRUE, !.Season = info.Season]

C14_Witness ==
    /\ Hinted
    /\ tracker = "btn"
    /\ PackPhrases(raw) # {}
    /\ parsed.Season \notin {0, info.Season}
    /\ info.IsComplete

\* the records the interleaved names give
Alone(n) ==
    CASE n = MatrixName ->
            [NewInfo EXCEPT !.Title = "The Matrix", !.Year = 1999, !.Resolution = "1080p",
                            !.Source = "BluRay", !.Codec = "H264", !.ReleaseGroup = "SPARKS",
                            !.Confidence = 81]
      [] n = "Show.1999.MKV" ->
            [NewInfo EXCEPT !.Title = "Show", !.Year = 1999, !.Container = "mkv", !.Confidence = 41]
      [] n = "The.Daily.Show.2023.10.15.720p.WEB.x264-GROUP" ->
            [NewInfo EXCEPT !.Title = "The Daily Show", !.Year = 2023, !.Date = "2023.10.15",
                            !.Resolution = "720p", !.Source = "WEBRip", !.Codec = "H264",
                            !.ReleaseGroup = "GROUP", !.Confidence = 81]
      [] n = "1x02.S03" -> [NewInfo EXCEPT !.Season = 1, !.Episode = 2, !.Confidence = 41]

EndsWithExtension(s) ==
    \E e \in ContainerExtensions :
        Len(s) > Len(e) /\ ToLower(Slice(s, Len(s) - Len(e) - 1, Len(s))) = "." \o e

ExtensionOf(s) ==
    CHOOSE e \in ContainerExtensions : ToLower(Slice(s, Len(s) - Len(e) - 1, Len(s))) = "." \o e

\* the container of the call with local state c
ContainerByExtension(c) ==
    IF EndsWithExtension(c.raw)
    THEN /\ c.pc = "date" => c.name = Slice(c.raw, 0, Len(c.raw) - Len(ExtensionOf(c.raw)) - 1)
         /\ c.pc # "container" => c.info.Container = ExtensionOf(c.raw)
    ELSE /\ c.pc = "date" => c.name = c.raw
         /\ c.info.Container = ""

\* call a parsed the name of call b with an extension appended: same record but for the
\* container and one more point of confidence
SameButContainer(a, b) ==
    \A e \in ContainerExtensions :
        a.raw = b.raw \o "." \o e /\ ~EndsWithExtension(b.raw) /\ a.pc = "done" /\ b.pc = "done" =>
            a.info = [b.info EXCEPT !.Container = e, !.Confidence = b.info.Confidence + 1]

\* C18: Container is set iff the raw name ends with '.' and one of the seven extensions, in any
\* letter case; it is the extension in lower case, and the extension leaves the working string
\* in the first step; Parse(n + "." + ext) is Parse(n) but for Container = ext and a confidence
\* one point higher, for n without such an extension.
C18_ContainerByExtension ==
    /\ ContainerByExtension(Locals)
    /\ ContainerByExtension(other)
    /\ SameButContainer(Locals, other)
    /\ SameButContainer(other, Locals)

C18_Witness ==
    /\ pc = "done"
    /\ other.pc = "done"
    /\ raw = "Show.S01E02.PROPER.720p.HDTV.AAC"
    /\ other.raw = "Show.S01E02.PROPER.720p.HDTV.AAC.webm"
    /\ other.info.Container = "webm"
    /\ other.info.Confidence = info.Confidence + 1

\* C16: no step of Parse writes to an output stream.
C16_NoOutput == [][stderr' = stderr]_vars

OfficeName == "The.Office.E01.Pilot.720p.HDTV.x264"

FriendsName == "Friends.E10.The.One.With.Monica.720p.HDTV"

SeasonThenEpisodeName == "Breaking.Bad.S02.E05.720p.HDTV.x264"

\* C17: an episode-only code without any season marker gives season 1 and the episode number of
\* the code; after a bare season code it gives that season and the episode number.
C17_EpisodeOnlyCode ==
    Returned =>
        /\ raw = OfficeName => info.Season = 1 /\ info.Episode = 1
        /\ raw = FriendsName => info.Season = 1 /\ info.Episode = 10
        /\ raw = SeasonThenEpisodeName => info.Season = 2 /\ info.Episode = 5

AllDigits(s) == \A i \in 1..Len(s) : Char(s, i) \in Digits

\* a full date at 0-based offset i of s: four digits, two digits, two digits, each pair
\* preceded by '.' or '-'
DateAt(s, i) ==
    /\ i + 10 <= Len(s)
    /\ AllDigits(Slice(s, i, i + 4))
    /\ Slice(s, i + 4, i + 5) \in {".", "-"}
    /\ AllDigits(Slice(s, i + 5, i + 7))
    /\ Slice(s, i + 7, i + 8) \in {".", "-"}
    /\ AllDigits(Slice(s, i + 8, i + 10))

DateOffsets(s) == {i \in 0..Len(s) : DateAt(s, i)}

DottedDate(s, i) ==
    Slice(s, i, i + 4) \o "." \o Slice(s, i + 5, i + 7) \o "." \o Slice(s, i + 8, i + 10)

\* C19: the date step stores the leftmost full date of the working name as Date, with dots,
\* sets Year from it iff 1895 <= YYYY <= current year, and removes that one occurrence from
\* the working name; without a date it changes nothing; no other step changes Date, and no
\* step after it changes the working name.
C19_DateExtracted ==
    [][IF pc = "date"
       THEN IF DateOffsets(name) = {}
            THEN name' = name /\ info' = info
            ELSE LET i == MinOf(DateOffsets(name))
                     y == DigitsVal(Slice(name, i, i + 4), 1, 0)
                 IN /\ info' = [info EXCEPT !.Date = DottedDate(name, i),
                                            !.Year = IF 1895 <= y /\ y <= CurrentYear THEN y ELSE 0]
                    /\ name' = Slice(name, 0, i) \o Slice(name, i + 10, Len(name))
       ELSE info'.Date = info.Date /\ (pc # "container" => name' = name)]_vars

C19_Witness ==
    /\ Returned
    /\ raw = "Show.2049-12-31.2010.720p"
    /\ name = "Show..2010.720p"
    /\ info.Date = "2049.12.31"
    /\ info.Year = 2010
    /\ info.Title = "Show"

OutOfRangeYears == {y \in YearTexts : Atoi(y)[1] < 1895 \/ Atoi(y)[1] > CurrentYear}

\* C20: a returned Year is 0 or lies in 1895..current year; a four-digit token outside that
\* range left of the definite block is not stored and stays in the title.
C20_YearInRange ==
    Returned =>
        /\ info.Year = 0 \/ (1895 <= info.Year /\ info.Year <= CurrentYear)
        /\ \A y \in OutOfRangeYears, t \in YearTails :
              raw = "Show." \o y \o t => info.Year = 0 /\ info.Title = "Show " \o y

C20_Witness == Returned /\ raw = "Show.2049.1080p.BluRay.x264-GRP" /\ info.Year = 0 /\ info.Title = "Show 2049"

Scanning == pc \in {"p1", "p2scan", "p2", "p2join", "p3scan", "p3", "finish"}

\* the handler of the running phase accepts the match at the loop index
Accepts ==
    LET m == matches[mi] IN
    IF pc = "p1" THEN DefiniteHandler(m.pattern, MatchText(name, m).text, info).acc
    ELSE ExtendingHandler(m.pattern, MatchText(name, m).text, info).acc

\* C21: the boundary starts at the length of the working string, stays within 0..length and
\* never increases; Phase 2 leaves it alone and handles no match that starts left of it; in
\* Phases 1 and 3 it moves only to the start of the match just accepted, and it moves to 0 only
\* in Phase 1, at a match that starts at offset 0; the Title is computed from the characters
\* left of the final boundary only, the unparsed residue from those at or right of it only.
C21_BoundaryMoves ==
    [][/\ pc = "p1scan" => pos' = Len(name)
       /\ Scanning => pos' <= pos /\ pos' \in 0..Len(name) /\ name' = name
       /\ pc \in {"p2scan", "p2", "p2join"} => pos' = pos
       /\ pc = "p2" /\ (info' # info \/ audioTokens' # audioTokens) => matches[mi].start >= pos
       /\ Scanning /\ pos' # pos =>
             /\ pc \in {"p1", "p3"}
             /\ pos' = matches[mi].start
             /\ Accepts
       /\ Scanning /\ pos' # pos /\ pos' = 0 => pc = "p1"
       /\ pc = "finish" =>
             /\ info'.Title = extractTitleFromPosition(Slice(name, 0, pos), -1)
             /\ info'.Unparsed = extractUnparsedContent(Slice(name, pos, Len(name)), 0)]_vars

C21_Witness ==
    /\ Returned
    /\ raw = "The.Lord.of.the.Rings.2001.EXTENDED.1080p.BluRay.x265-RARBG.mkv"
    /\ pos = 22
    /\ info.Year = 2001
    /\ info.Edition = "Extended"
    /\ info.Title = "The Lord of the Rings"

\* the field an extending pattern fills is still unset
FieldUnset(p, i) ==
    CASE p = 1 -> i.Year = 0
      [] p = 2 -> i.Edition = ""
      [] p = 3 -> ~i.IsComplete
      [] p = 4 -> ~i.IsProper
      [] p = 5 -> ~i.IsRepack
      [] p = 6 -> ~i.IsHardcoded
      [] p = 7 -> i.Language = ""
      [] p = 8 -> i.Subtitles = <<>>
      [] p = 9 -> i.ReleaseGroup = ""

C23_RejectsOnlyDuplicates ==
    [][pc = "p2" /\ pc' # "panic" =>
            LET m == matches[mi] IN
            m.start >= pos /\ ~IsAudioPattern(m.pattern) /\ FieldUnset(m.pattern, info) =>
                /\ ~FieldUnset(m.pattern, info')
                /\ mi' = mi + 1
                /\ pc' = LoopNext(matches, mi, "p2", "p2join")]_vars

\* C24 as stated: with a year, or an edition, on each side of the first definite tag, the
\* token to the right fills the field and the token to the left stays in the Title.
C24_RightTokenAlwaysWins ==
    Returned => \A t \in BothSidesTails :
        /\ raw = "Movie.1995.1080p.2010" \o t => info.Year = 2010 /\ info.Title = "Movie 1995"
        /\ raw = "Movie.Unrated.1080p.Extended" \o t =>
               info.Edition = "Extended" /\ info.Title = "Movie Unrated"

\* C24: a year, edition, complete, proper or repack match at or after the boundary that Phase 2
\* reaches with its field unset (a year within range) fills the field and leaves the boundary
\* alone; the field then keeps its value until Parse returns; a match left of the boundary whose
\* field is already set is rejected in Phase 3, which ends the phase with the boundary to the
\* right of the start of that match, so the token stays in the Title.  When Phase 2 stops before
\* it reaches the token on the right, the token on the left is taken in Phase 3 instead.
C24_RightTokenWinsWhenReached ==
    [][/\ pc = "p2" /\ pc' # "panic" =>
            LET m == matches[mi] IN
            /\ m.start >= pos /\ m.pattern \in 1..5 /\ FieldUnset(m.pattern, info)
               /\ (m.pattern = 1 => isReasonableYear(MatchText(name, m).text)) =>
                    /\ ~FieldUnset(m.pattern, info')
                    /\ m.pattern = 1 => info'.Year = Atoi(MatchText(name, m).text)[1]
                    /\ pos' = pos
       /\ pc \in {"p2", "p2join", "p3scan", "p3", "finish"} =>
            /\ info.Year # 0 => info'.Year = info.Year
            /\ info.Edition # "" => info'.Edition = info.Edition
       /\ pc = "p3" =>
            LET m == matches[mi] IN
            m.start < pos /\ ~FieldUnset(m.pattern, info) =>
                info' = info /\ pos' = pos /\ pc' = "finish"
       /\ Returned /\ raw = "Movie.1995.1080p.2010.BluRay.x264-GROUP" =>
            info.Year = 2010 /\ info.Title = "Movie 1995"
       /\ Returned /\ raw = "Blade.Runner.2049.2017.2160p.UHD.BluRay.x265-GROUP" =>
            info.Year = 2017 /\ info.Title = "Blade Runner 2049"
       /\ Returned /\ raw = "Movie.Unrated.1080p.Extended" =>
            info.Edition = "Extended" /\ info.Title = "Movie Unrated"
       /\ Returned /\ raw = "Movie.1995.1080p.2010.HC.HC" => info.Year = 1995 /\ info.Title = "Movie"]_vars

C24_Witness ==
    /\ pc = "finish"
    /\ raw = "Movie.1995.1080p.2010.BluRay.x264-GROUP"
    /\ info.Year = 2010 /\ pos = 11
    /\ matches[mi].pattern = 1 /\ matches[mi].start = 6

\* C25: for a name with "Season", an optional '.' or blank and a one- or two-digit number N, in
\* any letter case, Parse returns season N, and the boundary has moved to the start of the word.
C25_WordedSeason ==
    Returned => \A w \in SeasonWords, g \in SeasonGaps, n \in SeasonNumbers :
        raw = "Show." \o w \o g \o n \o ".720p" =>
            /\ info.Season = Atoi(n)[1]
            /\ pos = 5
            /\ info.Title = "Show"

\* C26: an accepted subtitle indicator leaves in Subtitles the three-letter language code that
\* comes immediately before "SUBS" in the name, and the single entry "Unknown" only when no
\* such code comes before it.
C26_SubtitleLanguages ==
    Returned =>
        /\ raw = "Show.720p.ENG.SUBS" => info.Subtitles = <<"ENG">>
        /\ raw = "Show.720p.engsubs" => info.Subtitles = <<"eng">>
        /\ raw = "Show.FRE SUBS.720p" => info.Subtitles = <<"FRE">>
        /\ raw = "Show.720p.SUBS" => info.Subtitles = <<"Unknown">>

\* the audio-pattern matches the Phase-2 loop handled before it stopped, left to right
ReachedAudio ==
    SelectSeq(Reverse(SubSeq(matches, 1, mi - 1)), LAMBDA m : IsAudioPattern(m.pattern))

C28_CaseInsensitive ==
    Returned /\ raw \in CaseNames =>
        /\ info.Resolution = "1080p"
        /\ info.Source = "BluRay"
        /\ info.Codec = "H264"
        /\ info.Season = 1
        /\ info.Episode = 5

\* a year range at 0-based offset i of s: four digits, '-', four digits
YearRangeAt(s, i) ==
    /\ i + 9 <= Len(s)
    /\ Atoi(Slice(s, i, i + 4))[2]
    /\ Slice(s, i + 4, i + 5) = "-"
    /\ Atoi(Slice(s, i + 5, i + 9))[2]

YearRanges(s) == {i \in 0..Len(s) : YearRangeAt(s, i)}

\* what ParseWithHints may change of the record of Parse, by tracker
HintFrame ==
    LET t == ToLower(tracker) IN
    /\ t \in {"btn", "broadcasthenet"} =>
          info = [parsed EXCEPT !.Season = info.Season, !.IsComplete = info.IsComplete]
    /\ t \in {"ptp", "passthepopcorn"} =>
          /\ info = [parsed EXCEPT !.Year = info.Year]
          /\ YearRanges(raw) = {} => info = parsed
          /\ \A i \in YearRanges(raw) :
                (\A j \in YearRanges(raw) : i <= j) => info.Year = Atoi(Slice(raw, i, i + 4))[1]
    /\ t \in {"hdb", "hdbits"} => info = [parsed EXCEPT !.Confidence = info.Confidence]
    /\ t \notin KnownAliases => info = parsed

Capped(n) == IF n > 100 THEN 100 ELSE n

C30_TiesInTableOrder ==
    /\ pc = "p1" => \A i, j \in 1..Len(matches) :
          i < j /\ matches[i].start = matches[j].start => matches[i].pattern < matches[j].pattern
    /\ pc = "p1" /\ matches[mi].pattern = 6 /\ matches[mi].start < pos
       /\ info.Season = 0 /\ info.Episode = 0 =>
          \A k \in 1..Len(matches) :
              matches[k].pattern = 4 /\ matches[k].start = matches[mi].start => k < mi
    /\ Returned /\ raw \in TieNames => info.Season = 1 /\ info.Episode = 2

====
